---- MODULE Spec2Model ----
(***************************************************************************)
(* Model of rucio.common.didtype.DID (lib/rucio/common/didtype.py): the    *)
(* constructor pipeline (_parse_did_from_args, _construct_did, the four    *)
(* form-specific constructors, _update_implicit_scope, is_valid_format)    *)
(* and the rendering / equality / hash surface (__str__, __eq__, __ne__,   *)
(* __hash__).                                                              *)
(*                                                                         *)
(* A Python string is a finite sequence of tokens of Alphabet.  The three  *)
(* separator characters ':', '.', '/' are tokens of their own; the other   *)
(* tokens ("user", "group", "a") are separator-free pieces of text.  No    *)
(* piece is a prefix of another, so concatenating the tokens maps token    *)
(* sequences one-to-one to Python strings, and split / join / count /      *)
(* endswith / [:-1] on the separator characters act on the token sequence  *)
(* exactly as they act on the string.                                      *)
(***************************************************************************)
EXTENDS Integers, Sequences, FiniteSets, TLC

\* ---- bounds ----
MaxStrLen == 5
MaxPartLen == 2
MaxEqLen == 1

Alphabet == {"user", "group", "a", ":", ".", "/"}
EqAlphabet == {"a", ":", "/"}

StringsOver(A, n) == UNION {[1..k -> A] : k \in 0..n}
Strings(n) == StringsOver(Alphabet, n)

\* ---- class constants ----
SCOPE_SEPARATOR == ":"
IMPLICIT_SCOPE_SEPARATOR == "."
\* variant: the 'group' kind missing from the table
IMPLICIT_SCOPE_TO_LEN_user_only == [k \in {<<"user">>} |-> 2]
IMPLICIT_SCOPE_TO_LEN == [k \in {<<"user">>, <<"group">>} |-> 2]

\* ---- Python string primitives used by the class ----
\* s.count(c)
count(s, c) == Cardinality({i \in 1..Len(s) : s[i] = c})

\* index of the first occurrence of c in s (0 when absent)
find(s, c) ==
    IF \E i \in 1..Len(s) : s[i] = c
    THEN CHOOSE i \in 1..Len(s) : s[i] = c /\ \A j \in 1..(i - 1) : s[j] # c
    ELSE 0

\* s.split(sep, 1)
split1(s, sep) ==
    IF find(s, sep) = 0 THEN <<s>>
    ELSE <<SubSeq(s, 1, find(s, sep) - 1), SubSeq(s, find(s, sep) + 1, Len(s))>>

\* s.split(sep)
RECURSIVE split(_, _)
split(s, sep) ==
    IF find(s, sep) = 0 THEN <<s>>
    ELSE <<SubSeq(s, 1, find(s, sep) - 1)>>
         \o split(SubSeq(s, find(s, sep) + 1, Len(s)), sep)

\* sep.join(parts)
RECURSIVE join(_, _)
join(sep, parts) ==
    IF Len(parts) = 0 THEN <<>>
    ELSE IF Len(parts) = 1 THEN parts[1]
    ELSE parts[1] \o <<sep>> \o join(sep, Tail(parts))

\* parts[0:n]
slice0(parts, n) == SubSeq(parts, 1, IF n < Len(parts) THEN n ELSE Len(parts))

\* s.endswith(c)
endswith(s, c) == Len(s) > 0 /\ s[Len(s)] = c

\* s[:-1]
droplast(s) == SubSeq(s, 1, Len(s) - 1)

\* ---- Python values handed to the constructor ----
\* One record shape for every value: `s` is the payload of a str, `items` the
\* elements of a tuple or list (for a DID object: its scope and name), `d` the
\* key/value pairs of a dict in insertion order.
StrV(s) == [type |-> "str", s |-> s, items |-> <<>>, d |-> <<>>]
TupleV(items) == [type |-> "tuple", s |-> <<>>, items |-> items, d |-> <<>>]
ListV(items) == [type |-> "list", s |-> <<>>, items |-> items, d |-> <<>>]
DictV(d) == [type |-> "dict", s |-> <<>>, items |-> <<>>, d |-> d]
IntV == [type |-> "int", s |-> <<>>, items |-> <<>>, d |-> <<>>]
None == [type |-> "None", s |-> <<>>, items |-> <<>>, d |-> <<>>]
DIDV(scope, name) == [type |-> "DID", s |-> <<>>, items |-> <<scope, name>>, d |-> <<>>]
scopeOf(o) == o.items[1]
nameOf(o) == o.items[2]

\* d.get(key, '')
dictget(d, key) ==
    IF \E i \in 1..Len(d) : d[i][1] = key
    THEN d[CHOOSE i \in 1..Len(d) : d[i][1] = key][2]
    ELSE <<>>

\* ---- has_scope / has_name / is_valid_format / __str__ ----
has_scope(scope) == Len(scope) > 0
has_name(name) == Len(name) > 0

\* variant: only the name is checked for the separator
is_valid_format_name_only(scope, name) == ~(count(name, SCOPE_SEPARATOR) > 0)

is_valid_format(scope, name) ==
    ~(count(scope, SCOPE_SEPARATOR) > 0 \/ count(name, SCOPE_SEPARATOR) > 0)

str(scope, name) ==
    IF has_scope(scope) /\ has_name(name) THEN scope \o <<SCOPE_SEPARATOR>> \o name
    ELSE IF has_scope(scope) THEN scope
    ELSE name

\* variant: one leading segment too few is joined
update_implicit_scope_short(scope, name) ==
    LET did_parts == split(name, IMPLICIT_SCOPE_SEPARATOR)
        num_scope_parts ==
            IF did_parts[1] \in DOMAIN IMPLICIT_SCOPE_TO_LEN
            THEN IMPLICIT_SCOPE_TO_LEN[did_parts[1]] ELSE 0
    IN IF num_scope_parts > 0
       THEN join(IMPLICIT_SCOPE_SEPARATOR, slice0(did_parts, num_scope_parts - 1))
       ELSE scope

\* ---- _update_implicit_scope: the scope it leaves in self.scope ----
update_implicit_scope(scope, name) ==
    LET did_parts == split(name, IMPLICIT_SCOPE_SEPARATOR)
        num_scope_parts ==
            IF did_parts[1] \in DOMAIN IMPLICIT_SCOPE_TO_LEN
            THEN IMPLICIT_SCOPE_TO_LEN[did_parts[1]] ELSE 0
    IN IF num_scope_parts > 0
       THEN join(IMPLICIT_SCOPE_SEPARATOR, slice0(did_parts, num_scope_parts))
       ELSE scope

\* ---- outcomes of a step: err = "none" or the DIDError raised ----
Fields(scope, name) == [err |-> "none", scope |-> scope, name |-> name]
Raise(msg) == [err |-> msg, scope |-> <<>>, name |-> <<>>]

\* ---- variants of the form-specific constructors ----
\* implicit scope resolved also after an explicit 'scope:name' split
did_from_str_always_implicit(did) ==
    LET did_parts == split1(did, SCOPE_SEPARATOR) IN
    IF Len(did_parts) = 1
    THEN IF ~has_scope(update_implicit_scope(<<>>, did))
         THEN Raise("non-splitable string is ambigious")
         ELSE Fields(update_implicit_scope(<<>>, did), did)
    ELSE Fields(update_implicit_scope(did_parts[1], did_parts[2]), did_parts[2])

\* the implicit scope prefix taken out of the name
did_from_str_prefix_removed(did) ==
    LET did_parts == split1(did, SCOPE_SEPARATOR) IN
    IF Len(did_parts) = 1
    THEN IF ~has_scope(update_implicit_scope(<<>>, did))
         THEN Raise("non-splitable string is ambigious")
         ELSE Fields(update_implicit_scope(<<>>, did),
                     SubSeq(did, Len(update_implicit_scope(<<>>, did)) + 1, Len(did)))
    ELSE Fields(did_parts[1], did_parts[2])

\* implicit scope resolved whether or not the dict carries a scope
did_from_dict_always_implicit(d) ==
    LET scope == dictget(d, "scope")
        name == dictget(d, "name")
    IN Fields(update_implicit_scope(scope, name), name)

\* implicit scope resolved on a copied object
did_from_did_object_resolving(did) ==
    Fields(update_implicit_scope(scopeOf(did), nameOf(did)), nameOf(did))

\* ---- form-specific constructors (self.scope = self.name = '' on entry) ----
did_from_str(did) ==
    LET did_parts == split1(did, SCOPE_SEPARATOR) IN
    IF Len(did_parts) = 1
    THEN IF ~has_scope(update_implicit_scope(<<>>, did))
         THEN Raise("non-splitable string is ambigious")
         ELSE Fields(update_implicit_scope(<<>>, did), did)
    ELSE Fields(did_parts[1], did_parts[2])

did_from_dict(d) ==
    LET scope == dictget(d, "scope")
        name == dictget(d, "name")
    IN IF ~has_scope(scope)
       THEN Fields(update_implicit_scope(scope, name), name)
       ELSE Fields(scope, name)

did_from_list_or_tuple(items) ==
    IF Len(items) # 2
    THEN Raise("requires exactly 2 elements")
    ELSE Fields(items[1], items[2])

did_from_did_object(did) == Fields(scopeOf(did), nameOf(did))

\* the dispatch of _construct_did, before the trailing-slash strip
dispatch(did) ==
    IF did.type = "dict" THEN did_from_dict(did.d)
    ELSE IF did.type = "tuple" \/ did.type = "list" THEN did_from_list_or_tuple(did.items)
    ELSE IF did.type = "str" THEN did_from_str(did.s)
    ELSE IF did.type = "DID" THEN did_from_did_object(did)
    ELSE Raise("Cannot build object from")

\* variant: every trailing '/' is removed
RECURSIVE strip_all(_)
strip_all(name) == IF endswith(name, "/") THEN strip_all(droplast(name)) ELSE name

\* the trailing-slash strip of _construct_did
strip(name) == IF endswith(name, "/") THEN droplast(name) ELSE name

construct_did(did) ==
    LET f == dispatch(did) IN
    IF f.err # "none" THEN f ELSE Fields(f.scope, strip(f.name))

\* ---- _parse_did_from_args ----
\* args: sequence of values; kwargs: sequence of <<key, value>> in call order
Parsed(did) == [err |-> "none", did |-> did]
ParseError(msg) == [err |-> msg, did |-> None]

kwargs_as_dict(kwargs) == DictV([i \in 1..Len(kwargs) |-> <<kwargs[i][1], kwargs[i][2].s>>])

kwargs_get_did(kwargs) ==
    IF \E i \in 1..Len(kwargs) : kwargs[i][1] = "did"
    THEN kwargs[CHOOSE i \in 1..Len(kwargs) : kwargs[i][1] = "did"][2]
    ELSE kwargs_as_dict(kwargs)

parse_did_from_args(args, kwargs) ==
    LET num_args == Len(args)
        num_kwargs == Len(kwargs)
    IN IF num_args + num_kwargs > 2
       THEN ParseError("Constructor takes at most 2 arguments")
       ELSE IF num_args = 1
       THEN IF num_kwargs = 1
            THEN IF args[1].type = "str"
                 THEN IF kwargs[1][1] = "scope"
                      THEN Parsed(TupleV(<<kwargs[1][2].s, args[1].s>>))
                      ELSE IF kwargs[1][1] = "name"
                      THEN Parsed(TupleV(<<args[1].s, kwargs[1][2].s>>))
                      ELSE ParseError("unexpected keyword argument")
                 ELSE ParseError("First argument of constructor is expected to be string type")
            ELSE Parsed(args[1])
       ELSE IF num_args = 0
       THEN Parsed(kwargs_get_did(kwargs))
       ELSE Parsed(TupleV([i \in 1..Len(args) |-> args[i].s]))

\* ---- __init__: the whole constructor ----
\* formed: the fields left by the form-specific constructor (None-like when it
\* was not reached or raised); checked: the fields is_valid_format looked at;
\* obj: the object handed back, None when the constructor raised.
Outcome(err, did, formed, checked, obj) ==
    [err |-> err, did |-> did, formed |-> formed, checked |-> checked, obj |-> obj]

DID(args, kwargs) ==
    LET p == parse_did_from_args(args, kwargs) IN
    IF p.err # "none" THEN Outcome(p.err, None, None, None, None)
    ELSE LET f == dispatch(p.did) IN
         IF f.err # "none" THEN Outcome(f.err, p.did, None, None, None)
         ELSE LET c == construct_did(p.did) IN
              IF ~is_valid_format(c.scope, c.name)
              THEN Outcome("Object has invalid format after construction", p.did,
                           DIDV(f.scope, f.name), DIDV(c.scope, c.name), None)
              ELSE Outcome("none", p.did, DIDV(f.scope, f.name),
                           DIDV(c.scope, c.name), DIDV(c.scope, c.name))

\* ---- __str__ / __eq__ / __ne__ / __hash__ on objects ----
str_of(o) == str(scopeOf(o), nameOf(o))

\* The built-in hash of a str.  Python fixes it per process as a function of
\* the string's content; a polynomial hash over the tokens stands for it.
ordinal(c) ==
    CASE c = ":" -> 1 [] c = "." -> 2 [] c = "/" -> 3
      [] c = "a" -> 4 [] c = "user" -> 5 [] c = "group" -> 6

RECURSIVE builtin_hash(_)
builtin_hash(s) ==
    IF Len(s) = 0 THEN 0
    ELSE (builtin_hash(droplast(s)) * 31 + ordinal(s[Len(s)])) % 65521

\* variant: the hash taken from the name alone
hash_of_name(o) == builtin_hash(nameOf(o))

hash(o) == builtin_hash(str_of(o))

\* self == other; a value that is neither str nor DID goes through DID(other)
eq(o, other) ==
    IF other.type = "str" THEN str_of(o) = other.s
    ELSE IF other.type # "DID"
    THEN IF DID(<<other>>, <<>>).err # "none" THEN FALSE
         ELSE /\ scopeOf(o) = scopeOf(DID(<<other>>, <<>>).obj)
              /\ nameOf(o) = nameOf(DID(<<other>>, <<>>).obj)
    ELSE scopeOf(o) = scopeOf(other) /\ nameOf(o) = nameOf(other)

ne(o, other) == ~eq(o, other)

\* ---- constructor calls the model issues ----
Call(args, kwargs) == [args |-> args, kwargs |-> kwargs]
Parts == Strings(MaxPartLen)

\* DID('...')
StringCall(s) == Call(<<StrV(s)>>, <<>>)

\* the documented ways of handing over a scope a and a name b
PairCalls(a, b) ==
    << Call(<<StrV(a), StrV(b)>>, <<>>),
       Call(<<TupleV(<<a, b>>)>>, <<>>),
       Call(<<ListV(<<a, b>>)>>, <<>>),
       Call(<<DictV(<< <<"scope", a>>, <<"name", b>> >>)>>, <<>>),
       Call(<<>>, << <<"scope", StrV(a)>>, <<"name", StrV(b)>> >>),
       Call(<<>>, << <<"did", DictV(<< <<"scope", a>>, <<"name", b>> >>)>> >>),
       Call(<<>>, << <<"did", ListV(<<a, b>>)>> >>),
       Call(<<>>, << <<"did", TupleV(<<a, b>>)>> >>),
       Call(<<StrV(a)>>, << <<"name", StrV(b)>> >>),
       Call(<<StrV(b)>>, << <<"scope", StrV(a)>> >>) >>

\* calls with one piece of text a: partial forms and the calls that raise
SingleCalls(a) ==
    << Call(<<DictV(<< <<"scope", a>> >>)>>, <<>>),
       Call(<<DictV(<< <<"name", a>> >>)>>, <<>>),
       Call(<<>>, << <<"scope", StrV(a)>> >>),
       Call(<<>>, << <<"name", StrV(a)>> >>),
       Call(<<>>, << <<"did", StrV(a)>> >>),
       Call(<<>>, << <<"did", StrV(a)>>, <<"scope", StrV(a)>> >>),
       Call(<<>>, << <<"foo", StrV(a)>> >>),
       Call(<<StrV(a)>>, << <<"foo", StrV(a)>> >>),
       Call(<<TupleV(<<a, a>>)>>, << <<"name", StrV(a)>> >>),
       Call(<<TupleV(<<a>>)>>, <<>>),
       Call(<<ListV(<<a, a, a>>)>>, <<>>),
       Call(<<StrV(a), StrV(a), StrV(a)>>, <<>>),
       Call(<<StrV(a), StrV(a)>>, << <<"name", StrV(a)>> >>) >>

\* DID(), DID({}) and DID(5)
FixedCalls == <<Call(<<>>, <<>>), Call(<<DictV(<<>>)>>, <<>>), Call(<<IntV>>, <<>>)>>

\* ---- operands of the comparisons ----
EqParts == StringsOver(EqAlphabet, MaxEqLen)
EqCalls == {Call(<<TupleV(<<a, b>>)>>, <<>>) : a \in EqParts, b \in EqParts}
EqObjects == {DID(c.args, c.kwargs).obj : c \in EqCalls} \ {None}
EqOthers ==
    EqObjects
    \cup {StrV(s) : s \in StringsOver(EqAlphabet, 2 * MaxEqLen + 1)}
    \cup {TupleV(<<a, b>>) : a \in EqParts, b \in EqParts}

\* ---- state ----
VARIABLES
    op,      \* the operation performed last
    call,    \* the arguments of the last constructor call
    out,     \* what that call did: error, normalized input, fields formed / checked
    self,    \* the object the call returned, None when it raised
    prev,    \* the object a copy / re-parse started from
    forms,   \* the objects built from one scope and name in the four forms
    other,   \* the right-hand operand of a comparison
    eqres,   \* result of self == other
    neres,   \* result of self != other
    hself,   \* hash(self)
    hother   \* hash(other)

vars == <<op, call, out, self, prev, forms, other, eqres, neres, hself, hother>>

NoOutcome == Outcome("none", None, None, None, None)
Bool(b) == IF b THEN "True" ELSE "False"

Construct(name, c, from) ==
    /\ op' = name
    /\ call' = c
    /\ out' = DID(c.args, c.kwargs)
    /\ self' = out'.obj
    /\ prev' = from
    /\ forms' = <<>>
    /\ UNCHANGED <<other, eqres, neres, hself, hother>>

Init ==
    /\ op = "start"
    /\ call = Call(<<>>, <<>>)
    /\ out = NoOutcome
    /\ self = None
    /\ prev = None
    /\ forms = <<>>
    /\ other = None
    /\ eqres = "unset"
    /\ neres = "unset"
    /\ hself = -1
    /\ hother = -1

\* DID(...) from caller-supplied arguments.  The constructor reads nothing of
\* an earlier object, so issuing it from the start state reaches every state
\* a later call would reach.
NewFromString ==
    /\ op = "start"
    /\ \E s \in Strings(MaxStrLen) : Construct("new", StringCall(s), None)

NewFromPair ==
    /\ op = "start"
    /\ \E a \in Parts, b \in Parts, i \in DOMAIN PairCalls(<<>>, <<>>) :
          Construct("new", PairCalls(a, b)[i], None)

NewFromSingle ==
    /\ op = "start"
    /\ \E a \in Parts, i \in DOMAIN SingleCalls(<<>>) :
          Construct("new", SingleCalls(a)[i], None)

NewFixed ==
    /\ op = "start"
    /\ \E i \in DOMAIN FixedCalls : Construct("new", FixedCalls[i], None)

\* DID(d) for the object d at hand
Copy ==
    /\ self # None
    /\ Construct("copy", Call(<<self>>, <<>>), self)

\* DID(str(d)) for the object d at hand
Reparse ==
    /\ self # None
    /\ Construct("reparse", Call(<<StrV(str_of(self))>>, <<>>), self)

\* the same scope a and name b handed over as 'a:b', (a, b),
\* {'scope': a, 'name': b} and scope=a, name=b
FormCalls(a, b) ==
    << Call(<<StrV(a \o <<SCOPE_SEPARATOR>> \o b)>>, <<>>),
       Call(<<TupleV(<<a, b>>)>>, <<>>),
       Call(<<DictV(<< <<"scope", a>>, <<"name", b>> >>)>>, <<>>),
       Call(<<>>, << <<"scope", StrV(a)>>, <<"name", StrV(b)>> >>) >>

Forms ==
    /\ op = "start"
    /\ \E a \in Parts, b \in Parts :
          /\ op' = "forms"
          /\ call' = FormCalls(a, b)[2]
          /\ out' = DID(call'.args, call'.kwargs)
          /\ self' = out'.obj
          /\ prev' = None
          /\ forms' = [i \in 1..4 |-> DID(FormCalls(a, b)[i].args, FormCalls(a, b)[i].kwargs).obj]
          /\ UNCHANGED <<other, eqres, neres, hself, hother>>

Next == NewFromString \/ NewFromPair \/ NewFromSingle \/ NewFixed \/ Copy \/ Reparse \/ Forms

Spec == Init /\ [][Next]_vars

\* ---- comparisons and hashing of objects already built ----
InitEq ==
    /\ op = "new"
    /\ call \in EqCalls
    /\ out = DID(call.args, call.kwargs)
    /\ self = out.obj
    /\ self # None
    /\ prev = None
    /\ forms = <<>>
    /\ other \in EqOthers
    /\ eqres = "unset"
    /\ neres = "unset"
    /\ hself = -1
    /\ hother = -1

\* self == other
Eq ==
    /\ eqres' = Bool(eq(self, other))
    /\ UNCHANGED <<op, call, out, self, prev, forms, other, neres, hself, hother>>

\* self != other
Ne ==
    /\ neres' = Bool(ne(self, other))
    /\ UNCHANGED <<op, call, out, self, prev, forms, other, eqres, hself, hother>>

\* hash(self)
Hash ==
    /\ hself' = hash(self)
    /\ UNCHANGED <<op, call, out, self, prev, forms, other, eqres, neres, hother>>

\* hash(other) for a str or DID operand
HashOther ==
    /\ other.type \in {"str", "DID"}
    /\ hother' = IF other.type = "str" THEN builtin_hash(other.s) ELSE hash(other)
    /\ UNCHANGED <<op, call, out, self, prev, forms, other, eqres, neres, hself>>

NextEq == Eq \/ Ne \/ Hash \/ HashOther

SpecEq == InitEq /\ [][NextEq]_vars

\* ---- properties ----
Contains(s, c) == \E i \in 1..Len(s) : s[i] = c
Constructed == op \in {"new", "copy", "reparse", "forms"}
IsStringCall == Len(call.args) = 1 /\ Len(call.kwargs) = 0 /\ call.args[1].type = "str"
InvalidFormat == "Object has invalid format after construction"
Ambiguous == "non-splitable string is ambigious"

\* C1: whatever the input shape, a constructed identifier has no ':' in its
\* scope or its name, and fields that contain ':' once the form-specific
\* constructor and the trailing-slash strip are done make the construction
\* fail with the invalid-format error.
C1_NoSeparatorInFields ==
    Constructed =>
        /\ self # None =>
              ~Contains(scopeOf(self), ":") /\ ~Contains(nameOf(self), ":")
        /\ (/\ out.checked # None
            /\ Contains(scopeOf(out.checked), ":") \/ Contains(nameOf(out.checked), ":"))
           => self = None /\ out.err = InvalidFormat

C1_Witness ==
    /\ op = "new"
    /\ Len(call.args) = 1
    /\ call.args[1].type = "tuple"
    /\ out.formed # None
    /\ Contains(scopeOf(out.formed), ":")
    /\ ~Contains(nameOf(out.formed), ":")
    /\ self = None

\* C2 as stated: DID(str(d)) succeeds and equals d for every valid d.
C2_RoundTripAlways ==
    op = "reparse" => self # None /\ eq(self, prev)

RoundTrips(d) ==
    has_scope(scopeOf(d)) /\ has_name(nameOf(d)) /\ ~endswith(nameOf(d), "/")

\* C2 amended: DID(str(d)) succeeds and equals d exactly for the valid d whose
\* scope and name are both non-empty and whose name does not end with '/'.
C2_RoundTripWhenBothSet ==
    op = "reparse" =>
        ((self # None /\ eq(self, prev) /\ self = prev) <=> RoundTrips(prev))

C2_Witness ==
    /\ op = "reparse"
    /\ RoundTrips(prev)
    /\ Contains(nameOf(prev), ".")
    /\ self = prev

\* C3: for two constructed identifiers, a == b exactly when str(a) == str(b).
C3_EqIffStrEqual ==
    (eqres # "unset" /\ other.type = "DID") =>
        (eqres = "True" <=> str_of(self) = str_of(other))

\* C4: an identifier and an identifier or string it compares equal to have
\* the same hash, the identifier's hash is the hash of its rendering, and an
\* identifier equals its own rendering.
C4_HashConsistent ==
    /\ (eqres = "True" /\ other.type \in {"str", "DID"} /\ hself # -1 /\ hother # -1)
          => hself = hother
    /\ hself # -1 => hself = builtin_hash(str(scopeOf(self), nameOf(self)))
    /\ (eqres # "unset" /\ other = StrV(str(scopeOf(self), nameOf(self))))
          => eqres = "True"

C4_Witness ==
    /\ eqres = "True"
    /\ other.type = "str"
    /\ has_scope(scopeOf(self))
    /\ has_name(nameOf(self))
    /\ hself # -1
    /\ hself = hother

\* C5 as stated: DID(d) has exactly the scope and the name of d.
C5_CopyIdentical ==
    op = "copy" =>
        self # None /\ scopeOf(self) = scopeOf(prev) /\ nameOf(self) = nameOf(prev)

\* C5 amended: DID(d) succeeds with the scope of d and with the name of d less
\* one trailing '/', so it is identical to d exactly when the name of d does
\* not end with '/'.
C5_CopyUpToSlash ==
    op = "copy" =>
        /\ self # None
        /\ scopeOf(self) = scopeOf(prev)
        /\ ~endswith(nameOf(prev), "/") => nameOf(self) = nameOf(prev)
        /\ endswith(nameOf(prev), "/") => nameOf(self) \o <<"/">> = nameOf(prev)

C5_Witness ==
    /\ op = "copy"
    /\ has_scope(scopeOf(prev))
    /\ has_name(nameOf(prev))
    /\ ~endswith(nameOf(prev), "/")
    /\ self = prev

\* C6: for non-empty a and b without ':', the constructions from 'a:b',
\* (a, b), {'scope': a, 'name': b} and scope=a, name=b all succeed and give
\* the same scope and name.
C6_FormsAgree ==
    op = "forms" =>
        LET a == call.args[1].items[1]
            b == call.args[1].items[2]
        IN (Len(a) > 0 /\ Len(b) > 0 /\ ~Contains(a, ":") /\ ~Contains(b, ":")) =>
              /\ \A i \in 1..4 : forms[i] # None
              /\ \A i \in 1..4, j \in 1..4 :
                    /\ scopeOf(forms[i]) = scopeOf(forms[j])
                    /\ nameOf(forms[i]) = nameOf(forms[j])
                    /\ eq(forms[i], forms[j])

C6_Witness ==
    /\ op = "forms"
    /\ call.args[1].items[2] \in {<<"user">>, <<"group">>}
    /\ Len(call.args[1].items[1]) > 0
    /\ ~Contains(call.args[1].items[1], ":")
    /\ \A i \in 1..4 : forms[i] # None /\ forms[i] = forms[1]

\* the text before the first '.'
FirstSegment(s) ==
    IF Contains(s, ".")
    THEN SubSeq(s, 1, (CHOOSE i \in 1..Len(s) : s[i] = "." /\ \A j \in 1..(i - 1) : s[j] # ".") - 1)
    ELSE s

Recognized(s) == FirstSegment(s) \in {<<"user">>, <<"group">>}

\* C7: a single string without ':' constructs exactly when its first
\* '.'-separated segment is 'user' or 'group'; otherwise the construction
\* raises and no identifier is produced.
C7_BareStringNeedsImplicitScope ==
    (Constructed /\ IsStringCall /\ ~Contains(call.args[1].s, ":")) =>
        /\ self # None <=> Recognized(call.args[1].s)
        /\ self = None => out.err = Ambiguous /\ out.obj = None

C7_Witness ==
    /\ op = "new"
    /\ IsStringCall
    /\ ~Contains(call.args[1].s, ":")
    /\ FirstSegment(call.args[1].s) = <<"group">>
    /\ Len(call.args[1].s) > 1
    /\ self # None

\* the name the implicit-scope resolution ran on, when it ran
ResolverRan ==
    /\ Constructed
    /\ \/ out.did.type = "str" /\ ~Contains(out.did.s, ":")
       \/ out.did.type = "dict" /\ Len(dictget(out.did.d, "scope")) = 0
ResolverName == IF out.did.type = "str" THEN out.did.s ELSE dictget(out.did.d, "name")
Segments(s) == split(s, ".")

\* C8 as stated: on a recognized name the scope becomes the join of exactly 2
\* leading segments and the name stays the full original string.
C8_ScopeIsExactlyNSegments ==
    (ResolverRan /\ Recognized(ResolverName)) =>
        /\ Len(Segments(ResolverName)) >= 2
        /\ scopeOf(out.formed) = Segments(ResolverName)[1] \o <<".">> \o Segments(ResolverName)[2]
        /\ nameOf(out.formed) = ResolverName

\* C8 amended: on a recognized name the scope becomes the join of the first 2
\* segments, or of the only segment when the name has just one, and the name
\* stays the full original string.
C8_ScopeIsUpToNSegments ==
    (ResolverRan /\ Recognized(ResolverName)) =>
        /\ out.formed # None
        /\ scopeOf(out.formed) =
              IF Len(Segments(ResolverName)) >= 2
              THEN Segments(ResolverName)[1] \o <<".">> \o Segments(ResolverName)[2]
              ELSE Segments(ResolverName)[1]
        /\ nameOf(out.formed) = ResolverName

C8_Witness ==
    /\ ResolverRan
    /\ Recognized(ResolverName)
    /\ Len(Segments(ResolverName)) > 2
    /\ Len(Segments(ResolverName)[2]) > 0
    /\ self # None
    /\ scopeOf(self) = Segments(ResolverName)[1] \o <<".">> \o Segments(ResolverName)[2]

\* C9: for every input shape the final name is the formed name less exactly
\* one trailing '/', or the formed name itself when it has none; the scope is
\* untouched and the separator check looks at the stripped name.
C9_TrailingSlashStrippedOnce ==
    (Constructed /\ out.formed # None) =>
        /\ out.checked # None
        /\ scopeOf(out.checked) = scopeOf(out.formed)
        /\ endswith(nameOf(out.formed), "/") =>
              nameOf(out.checked) \o <<"/">> = nameOf(out.formed)
        /\ ~endswith(nameOf(out.formed), "/") =>
              nameOf(out.checked) = nameOf(out.formed)
        /\ self # None => self = out.checked
        /\ self = None <=>
              (Contains(scopeOf(out.checked), ":") \/ Contains(nameOf(out.checked), ":"))

C9_Witness ==
    /\ op = "new"
    /\ IsStringCall
    /\ out.formed # None
    /\ Len(nameOf(out.formed)) >= 2
    /\ endswith(nameOf(out.formed), "/")
    /\ self # None
    /\ endswith(nameOf(self), "/")
    /\ nameOf(self) \o <<"/">> = nameOf(out.formed)

\* C10 as stated: an identifier constructed from a single string has a
\* non-empty name.
C10_StringFormHasName ==
    (Constructed /\ IsStringCall /\ self # None) => has_name(nameOf(self))

\* C10 amended: an identifier constructed from a single string that contains
\* no ':' has a non-empty name.
C10_BareStringHasName ==
    (Constructed /\ IsStringCall /\ self # None /\ ~Contains(call.args[1].s, ":"))
        => Len(nameOf(self)) > 0

C10_Witness ==
    /\ op = "new"
    /\ IsStringCall
    /\ ~Contains(call.args[1].s, ":")
    /\ endswith(call.args[1].s, "/")
    /\ self # None
    /\ Len(nameOf(self)) > 0

====
